---- MODULE Spec2Model ----
(***************************************************************************)
(* SSD1680 e-paper controller driver (ssd1680-rs): the blocking driver     *)
(* (driver.rs) and the async driver (driver_async.rs) as one state machine *)
(* whose steps are the calls each operation makes on its embedded-hal      *)
(* capabilities: reset pin, data/command pin, busy pin, SPI device, delay. *)
(***************************************************************************)
EXTENDS Integers, Sequences, FiniteSets, TLC

\* ------------------------------------------------------------------ bounds

\* Most high readings of the busy pin, and most 1 ms sleeps, that are counted
\* in one wait_for_busy; the wait itself goes on for as long as the pin reads high.
MaxPolls == 1

\* Number of iterations of a loop whose calls are kept in the log (the most
\* recent ones; every iteration is counted). Under Spec, where the logs are
\* compared whole, fill_bw_screen is called only for panels within this bound.
MaxFill == 8

\* ------------------------------------------- the calls an operation makes

\* One call on a capability: f is the call, c the SsdCommand an opcode write
\* carries ("" otherwise), a the bytes (or the milliseconds of a delay). The
\* calls of a loop body carry in len the number of calls in the body (two or
\* more); the last of them carries in n the number of iterations, the others
\* have n = 0; a call outside any loop has n = 1 and len = 1.
Step(f, c, a) == [f |-> f, c |-> c, a |-> a, n |-> 1, len |-> 1]

\* `for _ in 0..count { body }`.
Repeat(count, body) ==
    IF count = 0 THEN <<>>
    ELSE [i \in 1..Len(body) |->
            IF i = Len(body) THEN [body[i] EXCEPT !.n = count, !.len = Len(body)]
            ELSE [body[i] EXCEPT !.n = 0, !.len = Len(body)]]

\* --------------------------------------------------- integer arithmetic

RECURSIVE BitOr(_, _)
\* The | operator on unsigned integers.
BitOr(a, b) ==
    IF a = 0 THEN b
    ELSE IF b = 0 THEN a
    ELSE (IF a % 2 = 1 \/ b % 2 = 1 THEN 1 ELSE 0) + 2 * BitOr(a \div 2, b \div 2)

\* `x as u8`: the low 8 bits.
AsU8(x) == x % 256

\* `(x as u8) << n` on a u8: bits shifted past bit 7 are lost.
ShlU8(x, n) == (x * (2 ^ n)) % 256

\* `x >> n` on a u16.
ShrU16(x, n) == x \div (2 ^ n)

\* `b as u8` for a bool.
BoolU8(b) == IF b THEN 1 ELSE 0

\* u16 subtraction a - b: whether it overflows, and its wrapped value (what a
\* build without overflow checks computes).
SubOverflows(a, b) == a < b
SubWrapped(a, b) == (a - b + 65536) % 65536

\* u16 multiplication a * b, likewise.
MulOverflows(a, b) == a * b > 65535
MulWrapped(a, b) == (a * b) % 65536

\* --------------------------------------------------------- config.rs

\* LUTSelect discriminants.
LUTSelect(x) ==
    CASE x = "LUT0" -> 0 [] x = "LUT1" -> 1 [] x = "LUT2" -> 2 [] x = "LUT3" -> 3

\* VDBLevel discriminants.
VDBLevel(x) ==
    CASE x = "VSS" -> 0 [] x = "VSH1" -> 16 [] x = "VSL" -> 32 [] x = "VSH2" -> 48

\* UpdateRamOption discriminants.
UpdateRamOption(x) ==
    CASE x = "Normal" -> 0 [] x = "Bypass0" -> 4 [] x = "Inverse" -> 8

\* VDBMode values: tag, follow-LUT flag, LUT selector name, level name.
GSTransition(follow, lut) ==
    [follow |-> follow, lut |-> lut, m |-> "GSTransition", level |-> "VSS"]
FixLevel(lvl) == [follow |-> FALSE, lut |-> "LUT0", m |-> "FixLevel", level |-> lvl]
VCOM == [follow |-> FALSE, lut |-> "LUT0", m |-> "VCOM", level |-> "VSS"]
HiZ == [follow |-> FALSE, lut |-> "LUT0", m |-> "HiZ", level |-> "VSS"]

\* A VDBMode value as numbers: the index of its variant in the enum, then its
\* follow flag, LUT selector and level.
ModeArg(mode) ==
    << CASE mode.m = "GSTransition" -> 0 [] mode.m = "FixLevel" -> 1
         [] mode.m = "VCOM" -> 2 [] mode.m = "HiZ" -> 3,
       BoolU8(mode.follow), LUTSelect(mode.lut), VDBLevel(mode.level) >>

\* impl Default for DisplayConfig.
DefaultConfig ==
    [ width |-> 176, height |-> 296,
      gate_scanning_gd |-> FALSE, gate_scanning_sm |-> FALSE, gate_scanning_tb |-> FALSE,
      partial_refresh_sequence |-> 252, full_refresh_sequence |-> 247,
      border_waveform_control |-> GSTransition(TRUE, "LUT1"),
      ram_content_for_display_update |-> "Normal",
      s8_source_output_mode |-> TRUE,
      use_internal_temperature_sensor |-> TRUE ]

\* The fluent overrides.
with_width(cfg, w) == [cfg EXCEPT !.width = w]
with_height(cfg, h) == [cfg EXCEPT !.height = h]
with_gate_scanning(cfg, gd, sm, tb) ==
    [cfg EXCEPT !.gate_scanning_gd = gd, !.gate_scanning_sm = sm, !.gate_scanning_tb = tb]
with_border_waveform_control(cfg, mode) == [cfg EXCEPT !.border_waveform_control = mode]
with_partial_refresh_sequence(cfg, s) == [cfg EXCEPT !.partial_refresh_sequence = s]
with_full_refresh_sequence(cfg, s) == [cfg EXCEPT !.full_refresh_sequence = s]
with_ram_content_for_display_update(cfg, option, s8) ==
    [cfg EXCEPT !.ram_content_for_display_update = option, !.s8_source_output_mode = s8]
with_use_internal_temperature_sensor(cfg, internal) ==
    [cfg EXCEPT !.use_internal_temperature_sensor = internal]

\* DisplayConfig::epd_290_t94().
epd_290_t94 == with_height(with_width(DefaultConfig, 128), 296)

\* A configuration that overrides every field of the default.
CustomConfig ==
    with_use_internal_temperature_sensor(
      with_ram_content_for_display_update(
        with_full_refresh_sequence(
          with_partial_refresh_sequence(
            with_border_waveform_control(
              with_gate_scanning(with_height(with_width(DefaultConfig, 16), 4), TRUE, FALSE, TRUE),
              FixLevel("VSL")),
            15),
          199),
        "Inverse", FALSE),
      FALSE)

\* The configurations a driver is constructed with in the model: the default,
\* a fully overridden one, a width below 8 with height 0, and a width and
\* height above 255.
Configs ==
    { DefaultConfig,
      CustomConfig,
      with_height(with_width(DefaultConfig, 4), 0),
      with_border_waveform_control(with_height(with_width(DefaultConfig, 264), 300), HiZ) }

\* -------------------------------------------------------- commands.rs

\* The byte of each SsdCommand (`command.into()`), per the SSD1680 command table.
SsdCommand(command) ==
    CASE command = "DriveOutputControl" -> 1
      [] command = "DeepSleepMode" -> 16
      [] command = "DataEntryModeSetting" -> 17
      [] command = "SWReset" -> 18
      [] command = "TemperatureSensorControl" -> 24
      [] command = "MasterActivation" -> 32
      [] command = "DisplayUpdateControl1" -> 33
      [] command = "DisplayUpdateControl2" -> 34
      [] command = "WriteRamBW" -> 36
      [] command = "WriteRamRed" -> 38
      [] command = "ReadRam" -> 39
      [] command = "WriteLutRegister" -> 50
      [] command = "BorderWaveformnControl" -> 60
      [] command = "SetRamXStartEnd" -> 68
      [] command = "SetRamYStartEnd" -> 69
      [] command = "AutoWriteBWRam" -> 71
      [] command = "SetRamXCounter" -> 78
      [] command = "SetRamYCounter" -> 79
      [] command = "Nop" -> 127

\* A u16 overflow in a build with overflow checks: the operation panics.
Panic == << Step("panic", "", <<>>) >>

\* self.rst_pin.set_low() / set_high(), self.delay.delay_ms(ms).
rst_set_low == << Step("rst_low", "", <<>>) >>
rst_set_high == << Step("rst_high", "", <<>>) >>
delay_ms(ms) == << Step("delay", "", <<ms>>) >>

\* wait_for_busy: one wait on the busy pin (a poll loop in the blocking
\* driver, wait_for_low in the async driver; see BusyIsHigh, BusyWaitForLow).
wait_for_busy == << Step("wait", "", <<>>) >>

\* write_command: wait, D/C low, one opcode byte.
write_command(command) ==
    wait_for_busy \o << Step("dc_low", "", <<>>),
                       Step("spi_write", command, << SsdCommand(command) >>) >>

\* write_data with the busy wait that the source leaves commented out.
write_data_Waiting(data) ==
    wait_for_busy \o << Step("dc_high", "", <<>>), Step("spi_write", "", data) >>

\* write_data: D/C high, the bytes.
write_data(data) == << Step("dc_high", "", <<>>), Step("spi_write", "", data) >>

\* self.spi.read(&mut buf) with a 2-byte buffer.
spi_read == << Step("spi_read", "", <<>>) >>

write_bw_byte(byte) == write_command("WriteRamBW") \o write_data(<<byte>>)
write_bw_bytes(bytes) == write_command("WriteRamBW") \o write_data(bytes)
write_red_byte(byte) == write_command("WriteRamRed") \o write_data(<<byte>>)
write_red_bytes(bytes) == write_command("WriteRamRed") \o write_data(bytes)

set_ram_counter_x(x) == write_command("SetRamXCounter") \o write_data(<< AsU8(x) >>)

set_ram_counter_y(y) ==
    write_command("SetRamYCounter") \o write_data(<< AsU8(y), AsU8(ShrU16(y, 8)) >>)

select_internal_temperature_sensor(internal) ==
    write_command("TemperatureSensorControl")
        \o write_data(<< IF internal THEN 128 ELSE 72 >>)

\* The byte set_border_waveform computes from the mode.
BorderWaveformByte(mode) ==
    CASE mode.m = "VCOM" -> 128
      [] mode.m = "HiZ" -> 192
      [] mode.m = "FixLevel" -> BitOr(16, VDBLevel(mode.level))
      [] mode.m = "GSTransition" ->
            BitOr(BitOr(0, ShlU8(BoolU8(mode.follow), 2)), LUTSelect(mode.lut))

set_border_waveform(mode) ==
    write_command("BorderWaveformnControl") \o write_data(<< BorderWaveformByte(mode) >>)

\* display_update_control_1 with the two planes exchanged in the first byte.
display_update_control_1_Swapped(red, bw, source_output_mode) ==
    LET first_byte == BitOr(UpdateRamOption(red), ShlU8(UpdateRamOption(bw), 4))
        second_byte == ShlU8(BoolU8(source_output_mode), 7)
    IN  write_command("DisplayUpdateControl1") \o write_data(<< first_byte, second_byte >>)

display_update_control_1(red, bw, source_output_mode) ==
    LET first_byte == BitOr(UpdateRamOption(bw), ShlU8(UpdateRamOption(red), 4))
        second_byte == ShlU8(BoolU8(source_output_mode), 7)
    IN  write_command("DisplayUpdateControl1") \o write_data(<< first_byte, second_byte >>)

set_ram_start_end_x(start, end) ==
    write_command("SetRamXStartEnd") \o write_data(<< AsU8(start), AsU8(end) >>)

\* set_ram_start_end_y sending the high byte of each address first.
set_ram_start_end_y_HighFirst(start, end) ==
    write_command("SetRamYStartEnd")
        \o write_data(<< AsU8(ShrU16(start, 8)), AsU8(start), AsU8(ShrU16(end, 8)), AsU8(end) >>)

set_ram_start_end_y(start, end) ==
    write_command("SetRamYStartEnd")
        \o write_data(<< AsU8(start), AsU8(ShrU16(start, 8)), AsU8(end), AsU8(ShrU16(end, 8)) >>)

write_lut_register(register) == write_command("WriteLutRegister") \o write_data(register)

\* output_control without the test for a height of 0, in a build that wraps.
output_control_Wrapping(height, gd, sm, tb) ==
    LET h == SubWrapped(height, 1)
        gate_scanning == BitOr(BitOr(BoolU8(tb), ShlU8(BoolU8(sm), 1)), ShlU8(BoolU8(gd), 2))
    IN  write_command("DriveOutputControl")
            \o write_data(<< AsU8(h), AsU8(ShrU16(h, 8)), gate_scanning >>)

output_control(height, gd, sm, tb) ==
    LET h == IF height = 0 THEN 0 ELSE height - 1
        gate_scanning == BitOr(BitOr(BoolU8(tb), ShlU8(BoolU8(sm), 1)), ShlU8(BoolU8(gd), 2))
    IN  write_command("DriveOutputControl")
            \o write_data(<< AsU8(h), AsU8(ShrU16(h, 8)), gate_scanning >>)

data_entry_mode(x, y, direction) ==
    LET sequence == BitOr(BitOr(BoolU8(x), ShlU8(BoolU8(y), 1)), ShlU8(BoolU8(direction), 2))
    IN  write_command("DataEntryModeSetting") \o write_data(<< sequence >>)

sw_reset == write_command("SWReset")

display_update_control_2(sequence) ==
    write_command("DisplayUpdateControl2") \o write_data(<< sequence >>)

activate_update == write_command("MasterActivation")

\* refresh_screen_custom_sequence returning right after master activation.
refresh_screen_custom_sequence_NoWait(sequence) ==
    display_update_control_2(sequence) \o activate_update

refresh_screen_custom_sequence(sequence) ==
    display_update_control_2(sequence) \o activate_update \o wait_for_busy

partial_refresh(cfg) == refresh_screen_custom_sequence(cfg.partial_refresh_sequence)

full_refresh(cfg) == refresh_screen_custom_sequence(cfg.full_refresh_sequence)

fill_bw_screen_internal(color) ==
    LET data == BitOr(BitOr(ShlU8(BoolU8(color), 7), 96), 4)
    IN  wait_for_busy \o write_command("AutoWriteBWRam") \o write_data(<< data >>)
            \o wait_for_busy

\* The loop bound of fill_bw_screen without the division by 8.
FillCount_PerPixel(cfg) == MulWrapped(cfg.width, cfg.height)

\* The loop bound of fill_bw_screen in a build that wraps on overflow.
FillCount(cfg) == MulWrapped(cfg.width, cfg.height) \div 8

fill_bw_screen(cfg, checks, color) ==
    wait_for_busy \o write_command("WriteRamBW")
        \o (IF checks /\ MulOverflows(cfg.width, cfg.height)
            THEN Panic
            ELSE Repeat(FillCount(cfg), write_data(<< BoolU8(color) * 255 >>))
                    \o write_command("Nop") \o wait_for_busy)

\* enter_deep_sleep selecting deep sleep mode 2.
enter_deep_sleep_Mode2 == write_command("DeepSleepMode") \o write_data(<< 3 >>)

enter_deep_sleep == write_command("DeepSleepMode") \o write_data(<< 1 >>)

read_ram == wait_for_busy \o write_command("ReadRam") \o spi_read

\* The end address hw_init passes to set_ram_start_end_x, before the
\* subtraction of 1: the width in the blocking driver, width / 8 in the async one.
RamXColumns(v, cfg) == IF v = "blocking" THEN cfg.width ELSE cfg.width \div 8

\* HwInitFromY with the RAM counters reset before the border waveform.
HwInitFromY_CountersFirst(cfg, checks) ==
    IF checks /\ SubOverflows(cfg.height, 1)
    THEN Panic
    ELSE set_ram_start_end_y(0, SubWrapped(cfg.height, 1))
            \o set_ram_counter_x(0)
            \o set_ram_counter_y(0)
            \o set_border_waveform(cfg.border_waveform_control)
            \o display_update_control_1(cfg.ram_content_for_display_update,
                                        cfg.ram_content_for_display_update,
                                        cfg.s8_source_output_mode)
            \o select_internal_temperature_sensor(cfg.use_internal_temperature_sensor)
            \o wait_for_busy

\* hw_init from set_ram_start_end_y on.
HwInitFromY(cfg, checks) ==
    IF checks /\ SubOverflows(cfg.height, 1)
    THEN Panic
    ELSE set_ram_start_end_y(0, SubWrapped(cfg.height, 1))
            \o set_border_waveform(cfg.border_waveform_control)
            \o display_update_control_1(cfg.ram_content_for_display_update,
                                        cfg.ram_content_for_display_update,
                                        cfg.s8_source_output_mode)
            \o select_internal_temperature_sensor(cfg.use_internal_temperature_sensor)
            \o set_ram_counter_x(0)
            \o set_ram_counter_y(0)
            \o wait_for_busy

\* hw_init from set_ram_start_end_x on.
HwInitFromX(v, cfg, checks) ==
    IF checks /\ SubOverflows(RamXColumns(v, cfg), 1)
    THEN Panic
    ELSE set_ram_start_end_x(0, SubWrapped(RamXColumns(v, cfg), 1))
            \o HwInitFromY(cfg, checks)

\* A reset pulse that only releases the reset line.
ResetPulse_NoLow == rst_set_high \o delay_ms(20)

\* The hardware reset pulse that opens hw_init.
ResetPulse == rst_set_low \o delay_ms(20) \o rst_set_high \o delay_ms(20)

\* hw_init issuing the software reset ahead of the hardware reset pulse.
hw_init_SoftResetFirst(v, cfg, checks) ==
    wait_for_busy \o sw_reset
        \o ResetPulse
        \o wait_for_busy
        \o output_control(cfg.height, cfg.gate_scanning_gd, cfg.gate_scanning_sm,
                          cfg.gate_scanning_tb)
        \o data_entry_mode(TRUE, TRUE, FALSE)
        \o HwInitFromX(v, cfg, checks)

hw_init(v, cfg, checks) ==
    ResetPulse
        \o wait_for_busy \o sw_reset \o wait_for_busy
        \o output_control(cfg.height, cfg.gate_scanning_gd, cfg.gate_scanning_sm,
                          cfg.gate_scanning_tb)
        \o data_entry_mode(TRUE, TRUE, FALSE)
        \o HwInitFromX(v, cfg, checks)

\* ------------------------------------------------------------- the state

VARIABLES
    variant,    \* "blocking" (driver.rs) or "async" (driver_async.rs)
    checks,     \* whether the build panics on integer overflow (else it wraps)
    config,     \* self.config
    op,         \* the public operation called last ("none" before the first)
    arg,        \* its argument bytes
    plan,       \* the calls it makes, in order
    ip,         \* the index in plan of the call to make next
    iter,       \* completed iterations of the loop of the operation
    sub,        \* inside the blocking wait_for_busy: "poll" or "sleep"
    highs,      \* high readings of the busy pin in the current wait
    sleeps,     \* delay_ms(1) calls in the current wait
    log,        \* the calls the operation has made, in order (see Logged)
    result,     \* what the operation returned, or that it is running
    dc,         \* level of the data/command pin
    rst,        \* level of the reset pin
    asleep      \* the chip is in deep sleep

vars == << variant, checks, config, op, arg, plan, ip, iter, sub, highs, sleeps,
           log, result, dc, rst, asleep >>

\* The errors a capability can return.
HalErrors == { "E1", "E2" }

\* A call as logged: the call, the SsdCommand of an opcode write, the bytes,
\* the D/C level during the call, whether it returned Ok, and the error it
\* returned otherwise. A logged "busy" that returned Ok is a reading of the
\* busy pin as low.
Ev(k, c, a, e) == [k |-> k, c |-> c, a |-> a, dc |-> dc, ok |-> e = "", e |-> e]

Running == result.t = "running"
Cur == plan[ip]

\* The state after SSD1680::new(.., config) with config drawn from cfgs.
New(cfgs) ==
    /\ variant \in { "blocking", "async" }
    /\ checks \in BOOLEAN
    /\ config \in cfgs
    /\ op = "none"
    /\ arg = <<>>
    /\ plan = <<>>
    /\ ip = 1
    /\ iter = 0
    /\ sub = "poll"
    /\ highs = 0
    /\ sleeps = 0
    /\ log = <<>>
    /\ result = [v |-> 0, e |-> "", t |-> "none"]
    /\ dc = "unset"
    /\ rst = "unset"
    /\ asleep = FALSE

Init == New(Configs)

\* A call of a public operation that puts the default configuration back.
Invoke_WithDefaults(name, a, p) ==
    /\ ~Running
    /\ op' = name
    /\ arg' = a
    /\ plan' = p
    /\ ip' = 1
    /\ iter' = 0
    /\ sub' = "poll"
    /\ highs' = 0
    /\ sleeps' = 0
    /\ log' = <<>>
    /\ result' = [v |-> 0, e |-> "", t |-> "running"]
    /\ config' = DefaultConfig
    /\ UNCHANGED << variant, checks, dc, rst, asleep >>

\* A public operation is called: nothing is kept from the previous call but
\* the pins and the configuration.
Invoke(name, a, p) ==
    /\ ~Running
    /\ op' = name
    /\ arg' = a
    /\ plan' = p
    /\ ip' = 1
    /\ iter' = 0
    /\ sub' = "poll"
    /\ highs' = 0
    /\ sleeps' = 0
    /\ log' = <<>>
    /\ result' = [v |-> 0, e |-> "", t |-> "running"]
    /\ UNCHANGED << variant, checks, config, dc, rst, asleep >>

\* The current call is one of a loop body.
InLoop == Cur.len > 1

\* The log with the current call, made as ev, added: once MaxFill iterations
\* of a loop are in the log, a call of a later iteration takes the place of
\* the oldest call of the loop in the log.
Logged(ev) ==
    IF InLoop /\ iter >= MaxFill
    THEN LET oldest == Len(log) - MaxFill * Cur.len + 1
         IN  Append(SubSeq(log, 1, oldest - 1) \o SubSeq(log, oldest + 1, Len(log)), ev)
    ELSE Append(log, ev)

\* The current call returned Ok (value v, logged as ev): control moves to the
\* next call, back into the loop body, or out of the operation with Ok.
Proceed(ev, v) ==
    LET again == iter + 1 < Cur.n
        next == IF again THEN ip - (Cur.len - 1) ELSE ip + 1
        done == next > Len(plan)
    IN  /\ log' = Logged(ev)
        /\ ip' = next
        /\ iter' = IF InLoop /\ Cur.n > 0 THEN iter + 1 ELSE iter
        /\ sub' = "poll"
        /\ highs' = 0
        /\ sleeps' = 0
        /\ result' = IF done THEN [v |-> v, e |-> "", t |-> "ok"] ELSE [result EXCEPT !.v = v]
        /\ asleep' = IF ev.k = "rst_high" /\ rst = "low" THEN FALSE
                     ELSE IF done /\ op = "enter_deep_sleep" THEN TRUE
                     ELSE asleep

\* A failed call that is made again instead of ending the operation.
Fail_Retry(ev, kind, e) ==
    /\ log' = Logged(ev)
    /\ UNCHANGED << ip, iter, sub, highs, sleeps, asleep, result >>

\* The current call returned Err(e): `?` returns the error, mapped by map_err
\* to the variant `kind`, and the operation makes no other call.
Fail(ev, kind, e) ==
    /\ log' = Logged(ev)
    /\ result' = [v |-> 0, e |-> e, t |-> kind]
    /\ UNCHANGED << ip, iter, sub, highs, sleeps, asleep >>

\* self.rst_pin.set_low().map_err(Error::RstPinError)?
RstSetLow ==
    /\ Running /\ Cur.f = "rst_low"
    /\ \/ Proceed(Ev("rst_low", "", <<>>, ""), 0) /\ rst' = "low"
       \/ \E e \in HalErrors : Fail(Ev("rst_low", "", <<>>, e), "RstPinError", e) /\ rst' = rst
    /\ UNCHANGED << variant, checks, config, op, arg, plan, dc >>

\* self.rst_pin.set_high().map_err(Error::RstPinError)?
RstSetHigh ==
    /\ Running /\ Cur.f = "rst_high"
    /\ \/ Proceed(Ev("rst_high", "", <<>>, ""), 0) /\ rst' = "high"
       \/ \E e \in HalErrors : Fail(Ev("rst_high", "", <<>>, e), "RstPinError", e) /\ rst' = rst
    /\ UNCHANGED << variant, checks, config, op, arg, plan, dc >>

\* self.delay.delay_ms(20) in hw_init: it cannot fail.
DelayMs ==
    /\ Running /\ Cur.f = "delay"
    /\ Proceed(Ev("delay", "", Cur.a, ""), 0)
    /\ UNCHANGED << variant, checks, config, op, arg, plan, dc, rst >>

\* Blocking wait_for_busy, the loop condition self.busy.is_high(): a high
\* reading enters the loop body, a low reading leaves the loop, an error
\* returns BusyPinError.
BusyIsHigh ==
    /\ Running /\ Cur.f = "wait" /\ variant = "blocking" /\ sub = "poll"
    /\ \/ /\ highs' = IF highs < MaxPolls THEN highs + 1 ELSE highs
          /\ sub' = "sleep"
          /\ UNCHANGED << ip, iter, sleeps, log, result, asleep >>
       \/ Proceed(Ev("busy", "", <<>>, ""), 0)
       \/ \E e \in HalErrors : Fail(Ev("busy", "", <<>>, e), "BusyPinError", e)
    /\ UNCHANGED << variant, checks, config, op, arg, plan, dc, rst >>

\* Blocking wait_for_busy, the loop body self.delay.delay_ms(1).
BusyPollDelay ==
    /\ Running /\ Cur.f = "wait" /\ variant = "blocking" /\ sub = "sleep"
    /\ sleeps' = IF sleeps < MaxPolls THEN sleeps + 1 ELSE sleeps
    /\ sub' = "poll"
    /\ UNCHANGED << variant, checks, config, op, arg, plan, ip, iter, highs, log, result,
                    dc, rst, asleep >>

\* Async wait_for_busy: self.busy.wait_for_low().await completes once the pin
\* is low, or returns an error mapped to BusyPinError.
BusyWaitForLow ==
    /\ Running /\ Cur.f = "wait" /\ variant = "async"
    /\ \/ Proceed(Ev("busy", "", <<>>, ""), 0)
       \/ \E e \in HalErrors : Fail(Ev("busy", "", <<>>, e), "BusyPinError", e)
    /\ UNCHANGED << variant, checks, config, op, arg, plan, dc, rst >>

\* self.dc.set_low().map_err(Error::DcPinError)? in write_command.
DcSetLow ==
    /\ Running /\ Cur.f = "dc_low"
    /\ \/ Proceed(Ev("dc_low", "", <<>>, ""), 0) /\ dc' = "low"
       \/ \E e \in HalErrors : Fail(Ev("dc_low", "", <<>>, e), "DcPinError", e) /\ dc' = dc
    /\ UNCHANGED << variant, checks, config, op, arg, plan, rst >>

\* self.dc.set_high().map_err(Error::DcPinError)? in write_data.
DcSetHigh ==
    /\ Running /\ Cur.f = "dc_high"
    /\ \/ Proceed(Ev("dc_high", "", <<>>, ""), 0) /\ dc' = "high"
       \/ \E e \in HalErrors : Fail(Ev("dc_high", "", <<>>, e), "DcPinError", e) /\ dc' = dc
    /\ UNCHANGED << variant, checks, config, op, arg, plan, rst >>

\* self.spi.write(..).map_err(Error::SpiError)? in write_command and write_data.
SpiWrite ==
    /\ Running /\ Cur.f = "spi_write"
    /\ \/ Proceed(Ev("spi_write", Cur.c, Cur.a, ""), 0)
       \/ \E e \in HalErrors : Fail(Ev("spi_write", Cur.c, Cur.a, e), "SpiError", e)
    /\ UNCHANGED << variant, checks, config, op, arg, plan, dc, rst >>

\* The 2-byte buffers the chip answers a RAM read with.
ReadBufs == { << 0, 165 >>, << 255, 165 >>, << 255, 60 >> }

\* read_ram returning the first byte received.
SpiRead_FirstByte ==
    /\ Running /\ Cur.f = "spi_read"
    /\ \/ \E buf \in ReadBufs : Proceed(Ev("spi_read", "", buf, ""), buf[1])
       \/ \E e \in HalErrors : Fail(Ev("spi_read", "", <<>>, e), "SpiError", e)
    /\ UNCHANGED << variant, checks, config, op, arg, plan, dc, rst >>

\* self.spi.read(&mut buf).map_err(Error::SpiError)? in read_ram, which
\* returns Ok(buf[1]).
SpiRead ==
    /\ Running /\ Cur.f = "spi_read"
    /\ \/ \E buf \in ReadBufs : Proceed(Ev("spi_read", "", buf, ""), buf[2])
       \/ \E e \in HalErrors : Fail(Ev("spi_read", "", <<>>, e), "SpiError", e)
    /\ UNCHANGED << variant, checks, config, op, arg, plan, dc, rst >>

\* An integer overflow with overflow checks on: the thread panics.
Overflow ==
    /\ Running /\ Cur.f = "panic"
    /\ result' = [v |-> 0, e |-> "", t |-> "panic"]
    /\ UNCHANGED << variant, checks, config, op, arg, plan, ip, iter, sub, highs, sleeps,
                    log, dc, rst, asleep >>

\* ------------------------------------------------- the public operations

\* Arguments the operations are called with in the model.
ByteArgs == { 0, 165 }
SliceArgs == { <<>>, << 165, 90, 255 >> }
WordArgs == { 299 }
LutArg == [i \in 1..153 |-> i % 256]
ModeArgs == { FixLevel("VSH1"), GSTransition(FALSE, "LUT3") }
RamOptionArgs == { "Normal", "Inverse" }
CommandArgs == { "DriveOutputControl" }

Call_hw_init == Invoke("hw_init", <<>>, hw_init(variant, config, checks))

Call_write_bw_byte == \E b \in { 165 } : Invoke("write_bw_byte", << b >>, write_bw_byte(b))

Call_write_bw_bytes == \E d \in SliceArgs : Invoke("write_bw_bytes", d, write_bw_bytes(d))

Call_write_red_byte == \E b \in { 90 } : Invoke("write_red_byte", << b >>, write_red_byte(b))

Call_write_red_bytes == \E d \in { << 60, 195 >> } : Invoke("write_red_bytes", d, write_red_bytes(d))

Call_set_ram_counter_x ==
    \E x \in WordArgs : Invoke("set_ram_counter_x", << x >>, set_ram_counter_x(x))

Call_set_ram_counter_y ==
    \E y \in WordArgs : Invoke("set_ram_counter_y", << y >>, set_ram_counter_y(y))

Call_select_internal_temperature_sensor ==
    \E b \in BOOLEAN :
        Invoke("select_internal_temperature_sensor", << BoolU8(b) >>,
               select_internal_temperature_sensor(b))

Call_set_border_waveform ==
    \E m \in ModeArgs : Invoke("set_border_waveform", ModeArg(m), set_border_waveform(m))

Call_display_update_control_1 ==
    \E red \in { "Bypass0" }, bw \in RamOptionArgs, s \in { TRUE } :
        Invoke("display_update_control_1",
               << UpdateRamOption(red), UpdateRamOption(bw), BoolU8(s) >>,
               display_update_control_1(red, bw, s))

Call_set_ram_start_end_x ==
    \E s \in { 0 }, e \in WordArgs :
        Invoke("set_ram_start_end_x", << s, e >>, set_ram_start_end_x(s, e))

Call_set_ram_start_end_y ==
    \E s \in { 258 }, e \in WordArgs :
        Invoke("set_ram_start_end_y", << s, e >>, set_ram_start_end_y(s, e))

Call_write_lut_register == Invoke("write_lut_register", LutArg, write_lut_register(LutArg))

Call_output_control ==
    \E h \in { 0, 299 }, gd \in { TRUE }, sm \in { FALSE }, tb \in { TRUE } :
        Invoke("output_control", << h, BoolU8(gd), BoolU8(sm), BoolU8(tb) >>,
               output_control(h, gd, sm, tb))

Call_data_entry_mode ==
    \E x \in { TRUE }, y \in { FALSE }, d \in { TRUE } :
        Invoke("data_entry_mode", << BoolU8(x), BoolU8(y), BoolU8(d) >>,
               data_entry_mode(x, y, d))

Call_sw_reset == Invoke("sw_reset", <<>>, sw_reset)

Call_wait_for_busy == Invoke("wait_for_busy", <<>>, wait_for_busy)

Call_write_command ==
    \E c \in CommandArgs : Invoke("write_command", << SsdCommand(c) >>, write_command(c))

Call_write_data == \E d \in { << 7 >> } : Invoke("write_data", d, write_data(d))

Call_display_update_control_2 ==
    \E s \in { 247 } : Invoke("display_update_control_2", << s >>, display_update_control_2(s))

Call_activate_update == Invoke("activate_update", <<>>, activate_update)

Call_refresh_screen_custom_sequence ==
    \E s \in ByteArgs :
        Invoke("refresh_screen_custom_sequence", << s >>, refresh_screen_custom_sequence(s))

Call_partial_refresh == Invoke("partial_refresh", <<>>, partial_refresh(config))

Call_full_refresh == Invoke("full_refresh", <<>>, full_refresh(config))

Call_fill_bw_screen_internal ==
    \E color \in BOOLEAN :
        Invoke("fill_bw_screen_internal", << BoolU8(color) >>, fill_bw_screen_internal(color))

Call_fill_bw_screen ==
    /\ (checks /\ MulOverflows(config.width, config.height)) \/ FillCount(config) <= MaxFill
    /\ \E color \in BOOLEAN :
        Invoke("fill_bw_screen", << BoolU8(color) >>, fill_bw_screen(config, checks, color))

Call_enter_deep_sleep == Invoke("enter_deep_sleep", <<>>, enter_deep_sleep)

Call_read_ram == Invoke("read_ram", <<>>, read_ram)

Next ==
    \/ Call_hw_init
    \/ Call_write_bw_byte
    \/ Call_write_bw_bytes
    \/ Call_write_red_byte
    \/ Call_write_red_bytes
    \/ Call_set_ram_counter_x
    \/ Call_set_ram_counter_y
    \/ Call_select_internal_temperature_sensor
    \/ Call_set_border_waveform
    \/ Call_display_update_control_1
    \/ Call_set_ram_start_end_x
    \/ Call_set_ram_start_end_y
    \/ Call_write_lut_register
    \/ Call_output_control
    \/ Call_data_entry_mode
    \/ Call_sw_reset
    \/ Call_wait_for_busy
    \/ Call_write_command
    \/ Call_write_data
    \/ Call_display_update_control_2
    \/ Call_activate_update
    \/ Call_refresh_screen_custom_sequence
    \/ Call_partial_refresh
    \/ Call_full_refresh
    \/ Call_fill_bw_screen_internal
    \/ Call_fill_bw_screen
    \/ Call_enter_deep_sleep
    \/ Call_read_ram
    \/ RstSetLow
    \/ RstSetHigh
    \/ DelayMs
    \/ BusyIsHigh
    \/ BusyPollDelay
    \/ BusyWaitForLow
    \/ DcSetLow
    \/ DcSetHigh
    \/ SpiWrite
    \/ SpiRead
    \/ Overflow

Spec == Init /\ [][Next]_vars

\* ------------------------------------------- manual fill of a whole panel

\* The panels whose manual fill is followed to its end: the 2.9" panel of
\* epd_290_t94, and a panel whose width * height does not fit in a u16.
FillConfigs == { epd_290_t94, with_height(with_width(DefaultConfig, 256), 257) }

InitFill == New(FillConfigs)

\* fill_bw_screen called whatever the size of the panel.
FillPanel ==
    \E color \in BOOLEAN :
        Invoke("fill_bw_screen", << BoolU8(color) >>, fill_bw_screen(config, checks, color))

NextFill ==
    \/ FillPanel
    \/ BusyIsHigh
    \/ BusyPollDelay
    \/ BusyWaitForLow
    \/ DcSetLow
    \/ DcSetHigh
    \/ SpiWrite
    \/ Overflow

SpecFill == InitFill /\ [][NextFill]_vars

\* ------------------------------------- the encoders over all their inputs

\* Every VDBMode value.
VDBModes ==
    { VCOM, HiZ }
        \cup { FixLevel(l) : l \in { "VSS", "VSH1", "VSL", "VSH2" } }
        \cup { GSTransition(f, l) : f \in BOOLEAN, l \in { "LUT0", "LUT1", "LUT2", "LUT3" } }

\* Every UpdateRamOption value.
UpdateRamOptions == { "Normal", "Bypass0", "Inverse" }

\* u16 arguments: the least, the greatest, and values around the byte boundary.
HeightArgs == { 0, 1, 256, 296, 65535 }
YArgs == { 0, 258, 65535 }

InitEncode == New({ DefaultConfig, CustomConfig })

Encode_set_border_waveform ==
    \E m \in VDBModes : Invoke("set_border_waveform", ModeArg(m), set_border_waveform(m))

Encode_display_update_control_1 ==
    \E red \in UpdateRamOptions, bw \in UpdateRamOptions, s \in BOOLEAN :
        Invoke("display_update_control_1",
               << UpdateRamOption(red), UpdateRamOption(bw), BoolU8(s) >>,
               display_update_control_1(red, bw, s))

Encode_set_ram_start_end_y ==
    \E s \in YArgs, e \in YArgs :
        Invoke("set_ram_start_end_y", << s, e >>, set_ram_start_end_y(s, e))

Encode_output_control ==
    \E h \in HeightArgs, gd \in BOOLEAN, sm \in BOOLEAN, tb \in BOOLEAN :
        Invoke("output_control", << h, BoolU8(gd), BoolU8(sm), BoolU8(tb) >>,
               output_control(h, gd, sm, tb))

\* hw_init and the four encoders it uses, each called with every input above.
NextEncode ==
    \/ Call_hw_init
    \/ Encode_set_border_waveform
    \/ Encode_display_update_control_1
    \/ Encode_set_ram_start_end_y
    \/ Encode_output_control
    \/ RstSetLow
    \/ RstSetHigh
    \/ DelayMs
    \/ BusyIsHigh
    \/ BusyPollDelay
    \/ BusyWaitForLow
    \/ DcSetLow
    \/ DcSetHigh
    \/ SpiWrite

SpecEncode == InitEncode /\ [][NextEncode]_vars

\* --------------------------------------- a transport that never fails

ErrorKinds == { "RstPinError", "DcPinError", "BusyPinError", "SpiError" }

\* The step taken does not end in an error of a pin or of the SPI device.
NoTransportError == result'.t \notin ErrorKinds

\* The calls on the capabilities when no capability ever returns an error.
RstSetLowOk == RstSetLow /\ NoTransportError
RstSetHighOk == RstSetHigh /\ NoTransportError
BusyIsHighOk == BusyIsHigh /\ NoTransportError
BusyWaitForLowOk == BusyWaitForLow /\ NoTransportError
DcSetLowOk == DcSetLow /\ NoTransportError
DcSetHighOk == DcSetHigh /\ NoTransportError
SpiWriteOk == SpiWrite /\ NoTransportError
SpiReadOk == SpiRead /\ NoTransportError

\* A call of a public operation.
Call ==
    \/ Call_hw_init
    \/ Call_write_bw_byte
    \/ Call_write_bw_bytes
    \/ Call_write_red_byte
    \/ Call_write_red_bytes
    \/ Call_set_ram_counter_x
    \/ Call_set_ram_counter_y
    \/ Call_select_internal_temperature_sensor
    \/ Call_set_border_waveform
    \/ Call_display_update_control_1
    \/ Call_set_ram_start_end_x
    \/ Call_set_ram_start_end_y
    \/ Call_write_lut_register
    \/ Call_output_control
    \/ Call_data_entry_mode
    \/ Call_sw_reset
    \/ Call_wait_for_busy
    \/ Call_write_command
    \/ Call_write_data
    \/ Call_display_update_control_2
    \/ Call_activate_update
    \/ Call_refresh_screen_custom_sequence
    \/ Call_partial_refresh
    \/ Call_full_refresh
    \/ Call_fill_bw_screen_internal
    \/ Call_fill_bw_screen
    \/ Call_enter_deep_sleep
    \/ Call_read_ram

\* A reading of the busy pin as low by the blocking wait_for_busy.
BusyReadsLow == BusyIsHighOk /\ log' # log

\* A step of the operation that is running, over a transport that never fails.
StepOk ==
    \/ RstSetLowOk
    \/ RstSetHighOk
    \/ DelayMs
    \/ BusyIsHighOk
    \/ BusyPollDelay
    \/ BusyWaitForLowOk
    \/ DcSetLowOk
    \/ DcSetHighOk
    \/ SpiWriteOk
    \/ SpiReadOk
    \/ Overflow

NextLive == Call \/ StepOk

\* The operation that is running keeps taking steps (a caller may stop
\* calling), the wait of the async driver completes, and the blocking
\* driver, as long as it goes on polling, at some time reads the busy pin as low.
Fairness == WF_vars(StepOk) /\ WF_vars(BusyWaitForLowOk) /\ SF_vars(BusyReadsLow)

SpecLive == Init /\ [][NextLive]_vars /\ Fairness

\* ------------------------------------ initialization followed by a fill

\* Panels with a width or a height of 0, with a width below 8, and with a
\* width that is a multiple of 8.
PanelConfigs ==
    { with_width(DefaultConfig, 0),
      with_height(with_width(DefaultConfig, 4), 0),
      CustomConfig,
      with_height(with_width(DefaultConfig, 8), 5) }

InitPanel == New(PanelConfigs)

\* A caller's `driver.hw_init()?; driver.fill_bw_screen(color)?;`.
hw_init_then_fill_bw_screen(v, cfg, chk, color) ==
    hw_init(v, cfg, chk) \o fill_bw_screen(cfg, chk, color)

Call_hw_init_then_fill_bw_screen ==
    /\ (checks /\ MulOverflows(config.width, config.height)) \/ FillCount(config) <= MaxFill
    /\ \E color \in BOOLEAN :
        Invoke("hw_init_then_fill_bw_screen", << BoolU8(color) >>,
               hw_init_then_fill_bw_screen(variant, config, checks, color))

NextPanel ==
    \/ Call_hw_init
    \/ Call_hw_init_then_fill_bw_screen
    \/ RstSetLow
    \/ RstSetHigh
    \/ DelayMs
    \/ BusyIsHigh
    \/ BusyPollDelay
    \/ BusyWaitForLow
    \/ DcSetLow
    \/ DcSetHigh
    \/ SpiWrite
    \/ Overflow

SpecPanel == InitPanel /\ [][NextPanel]_vars

\* ------------------------------------------------------------ properties

IsPrefix(p, q) == Len(p) <= Len(q) /\ \A i \in 1..Len(p) : p[i] = q[i]

IsOpcode(ev) == ev.k = "spi_write" /\ ev.c # ""
IsTransfer(ev) == ev.k \in { "spi_write", "spi_read" }
IsParameter(ev) == IsTransfer(ev) /\ ev.c = ""
IsOk(ev) == ev.ok

\* A logged call by name: an opcode write is named by its SsdCommand.
Label(ev) == IF IsOpcode(ev) THEN ev.c ELSE ev.k

\* The logged calls without D/C changes and parameter transfers.
IsOrdered(ev) == ev.k \in { "rst_low", "rst_high", "delay", "busy" } \/ IsOpcode(ev)
Labels(lg) == LET keep == SelectSeq(lg, IsOrdered) IN [i \in 1..Len(keep) |-> Label(keep[i])]

\* The order of hw_init: each opcode is issued by write_command, which makes
\* its own reading of the busy pin as low just before the opcode.
HwInitOrder ==
    << "rst_low", "delay", "rst_high", "delay",
       "busy",
       "busy", "SWReset",
       "busy",
       "busy", "DriveOutputControl",
       "busy", "DataEntryModeSetting",
       "busy", "SetRamXStartEnd",
       "busy", "SetRamYStartEnd",
       "busy", "BorderWaveformnControl",
       "busy", "DisplayUpdateControl1",
       "busy", "TemperatureSensorControl",
       "busy", "SetRamXCounter",
       "busy", "SetRamYCounter",
       "busy" >>

\* C1: in a run of hw_init the reset-pin changes, the delays (20 ms each),
\* the readings of busy as low and the opcodes occur in the order of
\* HwInitOrder: what has happened so far without error is always a prefix of
\* it, and a run that returns Ok has made exactly these calls.
C1_HwInitOrder ==
    op = "hw_init" =>
        LET good == SelectSeq(log, IsOk)
        IN  /\ IsPrefix(Labels(good), HwInitOrder)
            /\ \A i \in 1..Len(log) : log[i].k = "delay" => log[i].a = << 20 >>
            /\ result.t = "ok" => Labels(log) = HwInitOrder

\* A run of hw_init has returned Ok.
C1_Witness == op = "hw_init" /\ result.t = "ok" /\ Len(log) > Len(HwInitOrder)

\* The first transfer the plan makes from call i on is an opcode, if any.
NextTransferIsOpcode(i) ==
    LET later == { m \in i..Len(plan) : plan[m].f \in { "spi_write", "spi_read" } }
    IN  later = {} \/ \E m \in later : plan[m].c # "" /\ \A x \in later : m <= x

\* C2: within a public operation every opcode write comes after a reading of
\* busy as low with no transfer in between, and no reading of the busy pin
\* lies between an opcode and a parameter transfer that follows it: once an
\* opcode has been written, the first transfer after any reading of the busy
\* pin is an opcode, and while control is in a wait the next transfer is one.
C2_BusyBeforeOpcode ==
    /\ \A i \in 1..Len(log) :
         IsOpcode(log[i]) =>
            \E j \in 1..(i - 1) :
                /\ log[j].k = "busy" /\ log[j].ok
                /\ \A m \in (j + 1)..(i - 1) : ~IsTransfer(log[m])
    /\ \A j \in 1..Len(log) :
         (log[j].k = "busy" /\ \E i \in 1..(j - 1) : IsOpcode(log[i]))
            => \A m \in (j + 1)..Len(log) :
                  IsParameter(log[m]) => \E x \in (j + 1)..(m - 1) : IsTransfer(log[x])
    /\ (Running /\ Cur.f = "wait" /\ \E i \in 1..Len(log) : IsOpcode(log[i]))
            => NextTransferIsOpcode(ip)

\* An operation has written two opcodes, each followed by parameter bytes.
C2_Witness ==
    /\ result.t = "ok"
    /\ \E i \in 1..Len(log), j \in 1..Len(log) :
         /\ i + 2 < j /\ j + 2 <= Len(log)
         /\ IsOpcode(log[i]) /\ IsParameter(log[i + 2])
         /\ IsOpcode(log[j]) /\ IsParameter(log[j + 2])

\* The bytes of the parameter writes in the log, one entry per write.
ParameterBytes(lg) ==
    LET keep == SelectSeq(lg, IsParameter) IN [i \in 1..Len(keep) |-> keep[i].a]

\* C3: with the default configuration a run of hw_init that returns Ok has
\* sent exactly the parameter bytes 27 01 00, 03, 00 15, 00 00 27 01, 05,
\* 00 80, 80, 00, 00 00 (hexadecimal), in this order, in either driver.
C3_DefaultInitBytes ==
    (config = DefaultConfig /\ op = "hw_init" /\ result.t = "ok") =>
        ParameterBytes(log) =
            << << 39, 1, 0 >>, << 3 >>, << 0, 21 >>, << 0, 0, 39, 1 >>, << 5 >>,
               << 0, 128 >>, << 128 >>, << 0 >>, << 0, 0 >> >>

\* The other driver.
OtherVariant == IF variant = "blocking" THEN "async" ELSE "blocking"

\* Calls on the reset pin, the D/C pin and the SPI device.
IsBusCall(x) == x \in { "rst_low", "rst_high", "dc_low", "dc_high", "spi_write", "spi_read" }
LoggedBusCall(ev) == IsBusCall(ev.k)
PlannedBusCall(st) == IsBusCall(st.f)

\* The reset-pin changes, D/C changes and transfers of a log, with the bytes written.
BusTrace(lg) ==
    LET keep == SelectSeq(lg, LoggedBusCall)
    IN  [i \in 1..Len(keep) |->
            << keep[i].k, IF keep[i].k = "spi_read" THEN <<>> ELSE keep[i].a >>]

RECURSIVE Times(_, _)
\* n copies of a sequence.
Times(body, n) == IF n = 0 THEN <<>> ELSE body \o Times(body, n - 1)

RECURSIVE Unrolled(_, _)
\* The calls of plan p from index i on, loops unrolled.
Unrolled(p, i) ==
    IF i > Len(p) THEN <<>>
    ELSE IF p[i].n = 1 /\ p[i].len = 1 THEN << p[i] >> \o Unrolled(p, i + 1)
    ELSE LET j == CHOOSE x \in i..Len(p) : p[x].n > 0 /\ \A y \in i..(x - 1) : p[y].n = 0
         IN  Times(SubSeq(p, i, j), p[j].n) \o Unrolled(p, j + 1)

\* The reset-pin changes, D/C changes and transfers plan p makes when no call fails.
PlannedBusTrace(p) ==
    LET keep == SelectSeq(Unrolled(p, 1), PlannedBusCall)
    IN  [i \in 1..Len(keep) |-> << keep[i].f, keep[i].a >>]

\* C4: an operation that returns Ok has made the reset-pin changes, D/C
\* changes and transfers that the other driver makes for the same operation,
\* arguments and configuration.
C4_SameBusSequence ==
    result.t = "ok" =>
        BusTrace(log) =
            PlannedBusTrace(IF op = "hw_init" THEN hw_init(OtherVariant, config, checks)
                            ELSE plan)

\* C5: in hw_init the parameter bytes written after the RAM-X start/end
\* opcode are 0 and the low 8 bits of width - 1, in either driver.
C5_RamXEndIsWidthMinusOne ==
    op = "hw_init" =>
        \A i \in 1..Len(log) :
            (log[i].c = "SetRamXStartEnd" /\ i + 2 <= Len(log) /\ log[i + 2].ok)
                => log[i + 2].a = << 0, (config.width - 1) % 256 >>

\* The error variant map_err gives a failed call.
ErrorOf(k) ==
    CASE k \in { "rst_low", "rst_high" } -> "RstPinError"
      [] k \in { "dc_low", "dc_high" } -> "DcPinError"
      [] k = "busy" -> "BusyPinError"
      [] k \in { "spi_write", "spi_read" } -> "SpiError"

\* C6: a call that fails is the last call its operation makes (so it is made
\* once and nothing follows it), and the operation returns the error variant
\* of that capability carrying the error the call returned; an operation
\* returns an error only this way.
C6_ErrorPropagation ==
    /\ \A i \in 1..Len(log) :
         ~log[i].ok =>
            /\ i = Len(log)
            /\ result = [t |-> ErrorOf(log[i].k), e |-> log[i].e, v |-> 0]
            /\ log[i].e \in HalErrors
    /\ result.t \in ErrorKinds => (Len(log) > 0 /\ ~log[Len(log)].ok)

\* hw_init has failed on a parameter write, part of the way through.
C6_Witness ==
    /\ op = "hw_init" /\ result.t = "SpiError" /\ result.e = "E2"
    /\ Len(log) > 10 /\ IsParameter(log[Len(log)])

\* The transfers of a log: the SsdCommand of an opcode write, the bytes of a
\* parameter write or read.
Transfers(lg) ==
    LET keep == SelectSeq(lg, IsTransfer)
    IN  [i \in 1..Len(keep) |-> << keep[i].c, IF keep[i].c = "" THEN keep[i].a ELSE <<>> >>]

\* Every opcode write carries one byte.
OpcodesAreOneByte == \A i \in 1..Len(log) : IsOpcode(log[i]) => Len(log[i].a) = 1

RefreshOps == { "refresh_screen_custom_sequence", "partial_refresh", "full_refresh" }

\* The sequence byte of the refresh operation called.
RefreshSequence ==
    CASE op = "refresh_screen_custom_sequence" -> arg[1]
      [] op = "partial_refresh" -> config.partial_refresh_sequence
      [] op = "full_refresh" -> config.full_refresh_sequence

RefreshTransfers ==
    << << "DisplayUpdateControl2", <<>> >>, << "", << RefreshSequence >> >>,
       << "MasterActivation", <<>> >> >>

\* C7: a refresh writes display-update-control-2, the one sequence byte (the
\* argument, or the configured partial or full sequence), then master
\* activation with no parameter, and nothing else; when it returns Ok its
\* last call is a reading of busy as low made after master activation.
C7_Refresh ==
    op \in RefreshOps =>
        /\ IsPrefix(Transfers(log), RefreshTransfers)
        /\ OpcodesAreOneByte
        /\ result.t = "ok" =>
              /\ Transfers(log) = RefreshTransfers
              /\ log[Len(log)].k = "busy" /\ log[Len(log)].ok
              /\ \E i \in 1..(Len(log) - 1) : log[i].c = "MasterActivation"

\* A full refresh has returned Ok.
C7_Witness == op = "full_refresh" /\ result.t = "ok" /\ config = CustomConfig

NoTransfer(lg) == \A i \in 1..Len(lg) : ~IsTransfer(lg[i])

\* C8 as claimed: once enter_deep_sleep has returned Ok and until the reset
\* line has been driven low and then high, no operation makes a transfer.
C8_NoTransferWhileAsleep ==
    (asleep /\ ~(op = "enter_deep_sleep" /\ result.t = "ok")) => NoTransfer(log)

\* C8, amended: after enter_deep_sleep has returned Ok, hw_init makes no
\* transfer until it has driven the reset line low and then high, and no
\* operation but hw_init drives the reset line.
C8_InitResetsBeforeTransfer ==
    /\ (asleep /\ op = "hw_init") => NoTransfer(log)
    /\ op # "hw_init" => \A i \in 1..Len(log) : log[i].k \notin { "rst_low", "rst_high" }
    /\ (op = "hw_init" /\ ~NoTransfer(log)) => (rst = "high" /\ ~asleep)

\* hw_init, called on a sleeping chip, has driven the reset line low.
C8_Witness == asleep /\ op = "hw_init" /\ Running /\ Len(log) = 2 /\ rst = "low"

InitOpcodes ==
    << "SWReset", "DriveOutputControl", "DataEntryModeSetting", "SetRamXStartEnd",
       "SetRamYStartEnd", "BorderWaveformnControl", "DisplayUpdateControl1",
       "TemperatureSensorControl", "SetRamXCounter", "SetRamYCounter" >>

\* The opcodes written, in order.
Opcodes(lg) == LET keep == SelectSeq(lg, IsOpcode) IN [i \in 1..Len(keep) |-> keep[i].c]

\* C9: whatever ran before, hw_init starts at its first call, the reset line
\* low; it makes no transfer before it has driven the reset line low and then
\* high; and its opcodes run from the software reset through the whole
\* sequence, never from a middle step.
C9_InitRestartsFromReset ==
    op = "hw_init" =>
        /\ (Running /\ log = <<>>) => (ip = 1 /\ Cur.f = "rst_low")
        /\ ~NoTransfer(log) =>
              /\ log[1].k = "rst_low" /\ log[1].ok
              /\ log[3].k = "rst_high" /\ log[3].ok
              /\ \A i \in 1..4 : ~IsTransfer(log[i])
        /\ IsPrefix(Opcodes(log), InitOpcodes)
        /\ result.t = "ok" => Opcodes(log) = InitOpcodes

\* hw_init is past the software reset, having been called after an earlier
\* operation left the D/C line low.
C9_Witness ==
    /\ op = "hw_init" /\ Running /\ Len(Opcodes(log)) >= 2
    /\ log[1].dc = "low"

\* C10: enter_deep_sleep writes the deep-sleep opcode and then the one
\* parameter byte 0x01, and makes no other transfer.
C10_DeepSleepBytes ==
    op = "enter_deep_sleep" =>
        LET expected == << << "DeepSleepMode", <<>> >>, << "", << 1 >> >> >>
        IN  /\ IsPrefix(Transfers(log), expected)
            /\ OpcodesAreOneByte
            /\ result.t = "ok" => Transfers(log) = expected

\* enter_deep_sleep has returned Ok, called after an initialization that
\* failed with the reset line low and after a parameter write.
C10_Witness ==
    op = "enter_deep_sleep" /\ result.t = "ok" /\ rst = "low" /\ log[1].dc = "high"

\* The byte fill_bw_screen is to send for the color it was called with.
FillByte == IF arg[1] = 1 THEN 255 ELSE 0

\* The transfers in the log of a manual fill that has made count data writes or more.
FillTransfers(count) ==
    [i \in 1..(count + 2) |->
        IF i = 1 THEN << "WriteRamBW", <<>> >>
        ELSE IF i = count + 2 THEN << "Nop", <<>> >>
        ELSE << "", << FillByte >> >>]

\* C11: with width 128 and height 296, fill_bw_screen first reads busy as
\* low and writes the WriteRamBW opcode before any data, then makes exactly
\* 4736 data writes of one byte each, 0x00 for color false and 0xFF for
\* color true, then writes the Nop opcode, and its last call before
\* returning Ok is a reading of busy as low. Each call is examined as the
\* last call made; the data writes are counted by the loop counter, which
\* agrees with the log for as long as the log holds every iteration.
C11_FillWholePanel ==
    (op = "fill_bw_screen" /\ config = epd_290_t94) =>
        /\ iter <= 4736
        /\ iter < MaxFill => Len(SelectSeq(SelectSeq(log, IsParameter), IsOk)) = iter
        /\ Len(log) > 0 =>
              LET last == log[Len(log)]
              IN  /\ log[1].k = "busy"
                  /\ (IsParameter(last) /\ last.ok) =>
                        (last.k = "spi_write" /\ last.a = << FillByte >> /\ iter >= 1)
                  /\ (IsOpcode(last) /\ last.ok) =>
                        \/ last.c = "WriteRamBW" /\ iter = 0
                        \/ last.c = "Nop" /\ iter = 4736
        /\ result.t = "ok" =>
              /\ iter = 4736
              /\ Transfers(log) = FillTransfers(MaxFill)
              /\ log[Len(log)].k = "busy" /\ log[Len(log)].ok
              /\ OpcodesAreOneByte

\* A fill of the 128 x 296 panel with color true has returned Ok.
C11_Witness ==
    /\ op = "fill_bw_screen" /\ config = epd_290_t94 /\ result.t = "ok"
    /\ arg = << 1 >> /\ iter = 4736 /\ log[Len(log) - 4].a = << 255 >>

\* C12: whatever the configured width and height, fill_bw_screen does not
\* abort, and when it returns Ok it has made floor(width * height / 8) data
\* writes, width * height being the product of the two numbers as integers.
C12_FillCountIsTrueProduct ==
    op = "fill_bw_screen" =>
        /\ result.t # "panic"
        /\ result.t = "ok" => iter = (config.width * config.height) \div 8

\* C13: the byte set_border_waveform sends determines the mode it was called
\* with: no other VDBMode value encodes to the same byte.
C13_BorderByteDeterminesMode ==
    (op = "set_border_waveform" /\ result.t = "ok") =>
        \A m \in VDBModes : BorderWaveformByte(m) = log[Len(log)].a[1] => ModeArg(m) = arg

\* The transfers of an operation that writes one opcode and then one
\* parameter write: so far a prefix of them, and all of them once it returns Ok.
WritesExactly(command, bytes) ==
    LET expected == << << command, <<>> >>, << "", bytes >> >>
    IN  /\ IsPrefix(Transfers(log), expected)
        /\ OpcodesAreOneByte
        /\ result.t = "ok" => Transfers(log) = expected

\* C14: output_control(H, gd, sm, tb) writes the DriveOutputControl opcode
\* and then exactly three bytes in one parameter write: (H - 1) mod 256,
\* (H - 1) div 256 and tb + 2 sm + 4 gd when H >= 1, and 0, 0 and the same
\* flag byte when H = 0.
C14_OutputControlBytes ==
    op = "output_control" =>
        LET H == arg[1]
            flags == arg[4] + 2 * arg[3] + 4 * arg[2]
        IN  WritesExactly("DriveOutputControl",
                          IF H = 0 THEN << 0, 0, flags >>
                          ELSE << (H - 1) % 256, (H - 1) \div 256, flags >>)

\* output_control has returned Ok for a height of 0 with gd and tb set.
C14_Witness ==
    op = "output_control" /\ result.t = "ok" /\ arg = << 0, 1, 0, 1 >> /\ Len(log) = 5

\* C15: display_update_control_1(red, bw, s) writes the DisplayUpdateControl1
\* opcode and then exactly two bytes: the code of bw plus 16 times the code
\* of red, and 128 when s is true, 0 when it is false; and the two bytes
\* hw_init writes after that opcode are those of the configured RAM option
\* taken for both planes and of the configured source output mode.
C15_DisplayUpdateControl1Bytes ==
    /\ op = "display_update_control_1" =>
            WritesExactly("DisplayUpdateControl1", << arg[2] + 16 * arg[1], 128 * arg[3] >>)
    /\ op = "hw_init" =>
            \A i \in 1..Len(log) :
                (log[i].c = "DisplayUpdateControl1" /\ i + 2 <= Len(log))
                    => log[i + 2].a =
                          << 17 * UpdateRamOption(config.ram_content_for_display_update),
                             128 * BoolU8(config.s8_source_output_mode) >>

\* display_update_control_1 has returned Ok for red Inverse, bw Bypass0 and
\* the source output mode set.
C15_Witness ==
    /\ op = "display_update_control_1" /\ result.t = "ok" /\ arg = << 8, 4, 1 >>
    /\ log[Len(log)].a = << 132, 128 >>

\* C16: set_ram_start_end_y(start, end) writes the SetRamYStartEnd opcode and
\* then exactly four bytes in one parameter write: start mod 256, start div
\* 256, end mod 256, end div 256.
C16_RamYBytes ==
    op = "set_ram_start_end_y" =>
        WritesExactly("SetRamYStartEnd",
                      << arg[1] % 256, arg[1] \div 256, arg[2] % 256, arg[2] \div 256 >>)

\* set_ram_start_end_y has returned Ok for start 258 and end 65535.
C16_Witness ==
    /\ op = "set_ram_start_end_y" /\ result.t = "ok" /\ arg = << 258, 65535 >>
    /\ log[Len(log)].a = << 2, 1, 255, 255 >>

\* The transfers of a log by kind: the SsdCommand of an opcode write, and
\* whether the transfer is a write or a read.
TransferKinds(lg) ==
    LET keep == SelectSeq(lg, IsTransfer)
    IN  [i \in 1..Len(keep) |-> << keep[i].c, keep[i].k >>]

\* C17: read_ram first reads busy as low, its only transfers are the write of
\* the ReadRam opcode and then one read, and when it returns Ok the read has
\* filled a 2-byte buffer and the value returned is the second byte of the
\* buffer, whatever the first byte is.
C17_ReadRamReturnsSecondByte ==
    op = "read_ram" =>
        LET expected == << << "ReadRam", "spi_write" >>, << "", "spi_read" >> >>
        IN  /\ IsPrefix(TransferKinds(log), expected)
            /\ OpcodesAreOneByte
            /\ (Len(log) > 0 /\ log[1].ok) => log[1].k = "busy"
            /\ result.t = "ok" =>
                  /\ TransferKinds(log) = expected
                  /\ log[Len(log)].k = "spi_read"
                  /\ Len(log[Len(log)].a) = 2
                  /\ result.v = log[Len(log)].a[2]

\* read_ram has returned Ok with 0xA5 after receiving 0xFF and then 0xA5.
C17_Witness ==
    /\ op = "read_ram" /\ result.t = "ok" /\ result.v = 165
    /\ log[Len(log)].a = << 255, 165 >>

\* C18: no step of any operation, successful or failed, changes the
\* configuration the driver was constructed with.
C18_ConfigNeverChanges == [][config' = config]_vars

\* With a configuration other than the default, an operation has failed
\* after an earlier enter_deep_sleep returned Ok.
C18_Witness ==
    /\ config = CustomConfig /\ asleep
    /\ op = "full_refresh" /\ result.t = "BusyPinError"

\* C19: at every transfer that carries an opcode the D/C line is low, and at
\* every transfer that carries parameter or payload bytes, the read of
\* read_ram included, the D/C line is high.
C19_DcMatchesTransfer ==
    \A i \in 1..Len(log) :
        IsTransfer(log[i]) => log[i].dc = IF IsOpcode(log[i]) THEN "low" ELSE "high"

\* C20: over a transport that never fails and with a busy pin that is read
\* as low at some time in every wait, no operation aborts and every operation
\* that has been called returns Ok at some time.
C20_EveryOperationReturnsOk ==
    [](result.t # "panic") /\ (Running ~> result.t = "ok")

\* The bytes of the parameter write that follows the opcode command in the
\* log, if it has been made.
ParametersOf(command) ==
    { log[i + 2].a : i \in { j \in 1..(Len(log) - 2) :
                                log[j].c = command /\ IsParameter(log[j + 2]) } }

\* C21: for every configuration hw_init does not abort; when the number of
\* RAM-X columns it subtracts 1 from is 0 it does not send 0xFF as the RAM-X
\* end address, and when the height is 0 it sends 0x00, 0x00 as the RAM-Y
\* end address, the height field 0 of output_control, and not 0xFF, 0xFF.
C21_NoUnderflowInInit ==
    op = "hw_init" =>
        /\ result.t # "panic"
        /\ RamXColumns(variant, config) = 0 =>
                \A a \in ParametersOf("SetRamXStartEnd") : a[2] # 255
        /\ config.height = 0 =>
                \A a \in ParametersOf("SetRamYStartEnd") : a = << 0, 0, 0, 0 >>

\* C22: when a caller's hw_init and then fill_bw_screen have both returned
\* Ok, with a width that is a multiple of 8, the number of data writes of one
\* byte the fill has made is the number of bytes of the RAM window hw_init
\* sent: (X end - X start + 1) * (Y end - Y start + 1), in either driver.
C22_FillCoversWindow ==
    (op = "hw_init_then_fill_bw_screen" /\ result.t = "ok" /\ config.width % 8 = 0) =>
        \A x \in ParametersOf("SetRamXStartEnd"), y \in ParametersOf("SetRamYStartEnd") :
            iter = (x[2] - x[1] + 1) * ((y[3] + 256 * y[4]) - (y[1] + 256 * y[2]) + 1)

====
